---- MODULE Spec2Model ----
(***************************************************************************)
(* Model of the Nobel laureates API server (src/server.py): the in-memory  *)
(* collection LAUREATES_DATA with its write-through file, the Basic-auth   *)
(* dependency, the sliding-window limiter middleware and the create /      *)
(* update / delete / read handlers.                                        *)
(*                                                                         *)
(* JSON values are tagged records, so that Python's str() and int() are    *)
(* modelled by what they do to each kind of value:                         *)
(*   text-like  [k, s]  k = "str" (the string s), "null", "absent"         *)
(*   number-like [k, n] k = "int" (the number n), "dec" (the canonical     *)
(*        decimal string of n), "pad" (a decimal string of n that is not   *)
(*        canonical, e.g. "07"), "txt" (a non-numeric string, n names      *)
(*        which), "null", "absent"                                         *)
(***************************************************************************)
EXTENDS Integers, Sequences, FiniteSets, TLC

\* ---------------------------------------------------------------- bounds
MaxLen == 2            \* no create is sent while the collection holds this many records
MaxTime == 2           \* the last tick of the clock
TicksPerSecond == 1    \* ticks of the clock in one second
MaxRequests == 3       \* requests sent where two threads serve updates and deletes

\* ------------------------------------------------------- JSON text values
Str(s) == [k |-> "str", s |-> s]
Null == [k |-> "null", s |-> ""]
Absent == [k |-> "absent", s |-> ""]

\* "x in payload"
Present(v) == v.k # "absent"

\* Python truthiness of a text-like value ("not category")
Truthy(v) == v.k = "str" /\ v.s # ""

\* str(v) for a text-like value: str(None) is the string "None"
PyStrText(v) == IF v.k = "null" THEN Str("None") ELSE v

\* ----------------------------------------------------- JSON number values
JInt(n) == [k |-> "int", n |-> n]
Dec(n) == [k |-> "dec", n |-> n]
Pad(n) == [k |-> "pad", n |-> n]
Txt(n) == [k |-> "txt", n |-> n]
NullNum == [k |-> "null", n |-> 0]
AbsentNum == [k |-> "absent", n |-> 0]

\* the string "None" among the non-numeric strings
NoneTxt == Txt(0)

\* str(v): a number becomes its canonical decimal string, None becomes "None",
\* a string stays what it is
PyStr(v) ==
  CASE v.k = "int" -> Dec(v.n)
    [] v.k \in {"null", "absent"} -> NoneTxt
    [] OTHER -> v

\* int(v): numbers and decimal strings parse, anything else raises
PyInt(v) ==
  IF v.k \in {"int", "dec", "pad"} THEN [ok |-> TRUE, n |-> v.n]
  ELSE [ok |-> FALSE, n |-> 0]

\* ------------------------------------------------------------- the store
Max(a, b) == IF a > b THEN a ELSE b

\* laureate.get("id", 0): an absent id reads as the number 0
GetIdOrZero(l) == IF l.id.k = "absent" THEN JInt(0) ELSE l.id

RECURSIVE MaxIdFrom(_, _)
MaxIdFrom(data, max_id) ==
  IF data = <<>> THEN max_id
  ELSE LET cur == PyInt(GetIdOrZero(Head(data))) IN
       MaxIdFrom(Tail(data),
                 IF cur.ok /\ cur.n > max_id THEN cur.n ELSE max_id)

\* mutant: the next id taken from the number of records instead of the maximum id
NextIdByCount(data) == Dec(Len(data) + 1)

\* the id the next create is given: str(max_id + 1)
_get_next_laureate_id(data) == Dec(MaxIdFrom(data, 0) + 1)

\* mutant: the ids are compared as numbers, so "02" is found when "2" is asked for
FindByNumber(data, laureate_id) ==
  LET hits == {i \in 1..Len(data) : PyInt(data[i].id) = PyInt(laureate_id)} IN
  IF hits = {} THEN 0
  ELSE CHOOSE i \in hits : \A j \in hits : i <= j

\* first index whose str(id) equals str(laureate_id), 0 for None
_find_laureate_index_by_id(data, laureate_id) ==
  LET hits == {i \in 1..Len(data) : PyStr(data[i].id) = PyStr(laureate_id)} IN
  IF hits = {} THEN 0
  ELSE CHOOSE i \in hits : \A j \in hits : i <= j

\* mutant: list.pop() without the index takes the last record
PopLast(data, idx) == SubSeq(data, 1, Len(data) - 1)

\* list.pop(idx)
PopAt(data, idx) == SubSeq(data, 1, idx - 1) \o SubSeq(data, idx + 1, Len(data))

\* ------------------------------------------------------------ persistence
\* the document json.dump writes
Dump(data) == [valid |-> TRUE, laureates |-> data]

\* a file whose write stopped half way is not a JSON document
CorruptFile == [valid |-> FALSE, laureates |-> <<>>]

\* data.get("laureates", []), [] when unreadable
load_laureates_into_memory(f) == IF f.valid THEN f.laureates ELSE <<>>

DiskOutcomes == {"ok", "open_fails", "write_fails"}

\* the file after the call: rewritten whole, untouched when open() raises,
\* truncated when the write raises
save_laureates_to_file(f, data, disk) ==
  CASE disk = "ok" -> Dump(data)
    [] disk = "open_fails" -> f
    [] OTHER -> CorruptFile

\* ----------------------------------------------------------- credentials
USUARIOS == [u \in {"admin"} |-> "nobel2025"]

\* mutant: the password is never compared
VerificarSoloUsuario(cred) == cred.username \in DOMAIN USUARIOS

\* TRUE when the user name is returned, FALSE when 401 is raised
verificar_credenciales(cred) ==
  /\ cred.username \in DOMAIN USUARIOS
  /\ USUARIOS[cred.username] # ""
  /\ cred.password = USUARIOS[cred.username]

\* ---------------------------------------------------------------- limiter
VENTANA == 1 * TicksPerSecond
MAX_PETICIONES == 5

\* while cubo and (ahora - cubo[0]) > VENTANA: cubo.popleft()
RECURSIVE Evict(_, _)
Evict(cubo, ahora) ==
  IF cubo # <<>> /\ (ahora - Head(cubo)) > VENTANA
  THEN Evict(Tail(cubo), ahora)
  ELSE cubo

\* mutant: the limit test is > instead of >=, one request too many is admitted
LimitadorUnoDeMas(metodo, cubo, ahora) ==
  LET c == Evict(cubo, ahora) IN
  IF metodo \notin {"POST", "PUT", "DELETE"}
  THEN [allowed |-> TRUE, recorded |-> FALSE, cubo |-> cubo]
  ELSE IF Len(c) > MAX_PETICIONES
  THEN [allowed |-> FALSE, recorded |-> FALSE, cubo |-> c]
  ELSE [allowed |-> TRUE, recorded |-> TRUE, cubo |-> Append(c, ahora)]

\* mutant: a denied attempt is recorded in the bucket all the same
LimitadorRegistraDenegadas(metodo, cubo, ahora) ==
  LET c == Evict(cubo, ahora) IN
  IF metodo \notin {"POST", "PUT", "DELETE"}
  THEN [allowed |-> TRUE, recorded |-> FALSE, cubo |-> cubo]
  ELSE IF Len(c) >= MAX_PETICIONES
  THEN [allowed |-> FALSE, recorded |-> FALSE, cubo |-> Append(c, ahora)]
  ELSE [allowed |-> TRUE, recorded |-> TRUE, cubo |-> Append(c, ahora)]

\* mutant: the method is not looked at, every request is counted
LimitadorTodosLosMetodos(metodo, cubo, ahora) ==
  LET c == Evict(cubo, ahora) IN
  IF Len(c) >= MAX_PETICIONES
  THEN [allowed |-> FALSE, recorded |-> FALSE, cubo |-> c]
  ELSE [allowed |-> TRUE, recorded |-> TRUE, cubo |-> Append(c, ahora)]

\* the middleware: only POST, PUT and DELETE are counted; the decision for one
\* request and the bucket it leaves
limitador(metodo, cubo, ahora) ==
  LET c == Evict(cubo, ahora) IN
  IF metodo \notin {"POST", "PUT", "DELETE"}
  THEN [allowed |-> TRUE, recorded |-> FALSE, cubo |-> cubo]
  ELSE IF Len(c) >= MAX_PETICIONES
  THEN [allowed |-> FALSE, recorded |-> FALSE, cubo |-> c]
  ELSE [allowed |-> TRUE, recorded |-> TRUE, cubo |-> Append(c, ahora)]

\* --------------------------------------------------------------- payloads
\* a prize of a request body
Prize(y, c, m) == [isDict |-> TRUE, awardYear |-> y, category |-> c, motivation |-> m]
NotADict == [isDict |-> FALSE, awardYear |-> AbsentNum, category |-> Absent, motivation |-> Absent]

\* the nobelPrizes member of a request body
List(items) == [k |-> "list", items |-> items]
NoPrizes == [k |-> "absent", items |-> <<>>]
NullPrizes == [k |-> "null", items |-> <<>>]
NotAList == [k |-> "other", items |-> <<>>]

\* a prize as stored
StoredPrize(n, c, m) == [awardYear |-> JInt(n), category |-> c, motivation |-> m]

\* mutant: the prizes are stored as they were sent, none is tested or converted
RECURSIVE CleanLoopAsGiven(_, _)
CleanLoopAsGiven(items, cleaned_prizes) ==
  IF items = <<>> THEN [ok |-> TRUE, detail |-> "", prizes |-> cleaned_prizes]
  ELSE CleanLoopAsGiven(Tail(items),
                        Append(cleaned_prizes,
                               [awardYear |-> Head(items).awardYear,
                                category |-> Head(items).category,
                                motivation |-> Head(items).motivation]))

RECURSIVE CleanLoop(_, _)
CleanLoop(items, cleaned_prizes) ==
  IF items = <<>> THEN [ok |-> TRUE, detail |-> "", prizes |-> cleaned_prizes]
  ELSE LET prize == Head(items)
           year == PyInt(prize.awardYear)
       IN
       IF ~prize.isDict
       THEN [ok |-> FALSE, detail |-> "Cada premio debe ser un objeto JSON", prizes |-> <<>>]
       ELSE IF ~year.ok
       THEN [ok |-> FALSE, detail |-> "Cada premio debe tener 'awardYear' numerico", prizes |-> <<>>]
       ELSE IF ~Truthy(prize.category) \/ ~Truthy(prize.motivation)
       THEN [ok |-> FALSE, detail |-> "Cada premio debe tener 'category' y 'motivation'", prizes |-> <<>>]
       ELSE CleanLoop(Tail(items),
                      Append(cleaned_prizes,
                             StoredPrize(year.n, PyStrText(prize.category),
                                         PyStrText(prize.motivation))))

\* mutant: the empty list is not refused
CleanPrizesSinVacia(np) ==
  IF np.k # "list"
  THEN [ok |-> FALSE, detail |-> "nobelPrizes debe ser una lista no vacia", prizes |-> <<>>]
  ELSE CleanLoop(np.items, <<>>)

\* validation and normalisation of nobelPrizes, the same in POST and PUT
CleanPrizes(np) ==
  IF np.k # "list" \/ Len(np.items) = 0
  THEN [ok |-> FALSE, detail |-> "nobelPrizes debe ser una lista no vacia", prizes |-> <<>>]
  ELSE CleanLoop(np.items, <<>>)

required_fields == <<"fullName", "gender", "birthDate", "birthCity", "birthCountry", "nobelPrizes">>
simple_fields == <<"fullName", "gender", "birthDate", "birthCity", "birthCountry">>

\* "field in payload"
InPayload(payload, field) ==
  IF field = "nobelPrizes" THEN payload.nobelPrizes.k # "absent"
  ELSE Present(payload[field])

\* the first required field the payload lacks, "" when none
FirstMissing(payload) ==
  LET miss == {i \in 1..Len(required_fields) : ~InPayload(payload, required_fields[i])} IN
  IF miss = {} THEN ""
  ELSE required_fields[CHOOSE i \in miss : \A j \in miss : i <= j]

\* --------------------------------------------------------------- handlers
Detail(msg, field) == [msg |-> msg, field |-> field]
NoDetail == Detail("", "")

\* what a handler leaves behind: the response's status and detail, the id it
\* reports, the collection and the file
Outcome(st, detail, id, data, f) ==
  [status |-> st, detail |-> detail, id |-> id, data |-> data, file |-> f]

\* mutant: the OSError of the save is swallowed and success is reported
SaveStatusSwallowed(disk) == 200

\* mutant: a file that cannot be opened is only logged, as init_data does
SaveStatusLogged(disk) == IF disk = "write_fails" THEN 500 ELSE 200

\* status of a request whose last step is the save: an OSError escapes as a 500
SaveStatus(disk) == IF disk = "ok" THEN 200 ELSE 500

\* body of POST /laureates
CreateResult(data, f, payload, disk) ==
  LET missing == FirstMissing(payload)
      cp == CleanPrizes(payload.nobelPrizes)
      nuevo_laureado ==
        [id |-> _get_next_laureate_id(data),
         fullName |-> PyStrText(payload.fullName),
         gender |-> PyStrText(payload.gender),
         birthDate |-> PyStrText(payload.birthDate),
         birthCity |-> PyStrText(payload.birthCity),
         birthCountry |-> PyStrText(payload.birthCountry),
         nobelPrizes |-> cp.prizes]
      appended == Append(data, nuevo_laureado)
  IN
  IF missing # ""
  THEN Outcome(400, Detail("Falta el campo obligatorio", missing), AbsentNum, data, f)
  ELSE IF ~cp.ok
  THEN Outcome(400, Detail(cp.detail, "nobelPrizes"), AbsentNum, data, f)
  ELSE Outcome(SaveStatus(disk), NoDetail, nuevo_laureado.id, appended,
               save_laureates_to_file(f, appended, disk))

\* mutant: a field sent as null is written too, as the string "None"
SetFieldNullToo(laureate, payload, field) ==
  IF Present(payload[field])
  THEN PyStrText(payload[field])
  ELSE laureate[field]

\* laureate[field] = str(payload[field]) when the field is present and not None
SetField(laureate, payload, field) ==
  IF Present(payload[field]) /\ payload[field].k # "null"
  THEN PyStrText(payload[field])
  ELSE laureate[field]

\* the loop over the simple fields, on the record the collection holds
SetSimpleFields(laureate, payload) ==
  [id |-> laureate.id,
   fullName |-> SetField(laureate, payload, "fullName"),
   gender |-> SetField(laureate, payload, "gender"),
   birthDate |-> SetField(laureate, payload, "birthDate"),
   birthCity |-> SetField(laureate, payload, "birthCity"),
   birthCountry |-> SetField(laureate, payload, "birthCountry"),
   nobelPrizes |-> laureate.nobelPrizes]

\* body of PUT /laureates/{laureate_id}: `laureate` is the very object stored
\* in LAUREATES_DATA, so the simple fields are written to the collection
\* before nobelPrizes is validated
UpdateResult(data, f, laureate_id, payload, disk) ==
  LET idx == _find_laureate_index_by_id(data, laureate_id)
      laureate == SetSimpleFields(data[idx], payload)
      touched == [data EXCEPT ![idx] = laureate]
      has_prizes == payload.nobelPrizes.k \notin {"absent", "null"}
      cp == CleanPrizes(payload.nobelPrizes)
      final == IF has_prizes
               THEN [touched EXCEPT ![idx].nobelPrizes = cp.prizes]
               ELSE touched
  IN
  IF idx = 0
  THEN Outcome(404, Detail("Laureado no encontrado", ""), AbsentNum, data, f)
  ELSE IF has_prizes /\ ~cp.ok
  THEN Outcome(400, Detail(cp.detail, "nobelPrizes"), AbsentNum, touched, f)
  ELSE Outcome(SaveStatus(disk), NoDetail, final[idx].id, final,
               save_laureates_to_file(f, final, disk))

\* d.get(key): None when the key is absent
GetOrNone(v) == IF v.k = "absent" THEN Null ELSE v

\* body of DELETE /laureates/{laureate_id}; the answer carries the fullName of
\* the record taken out
DeleteResult(data, f, laureate_id, disk) ==
  LET idx == _find_laureate_index_by_id(data, laureate_id)
      eliminado == data[idx]
      popped == PopAt(data, idx)
  IN
  IF idx = 0
  THEN Outcome(404, Detail("Laureado no encontrado", ""), AbsentNum, data, f)
  ELSE [status |-> SaveStatus(disk), detail |-> NoDetail, id |-> laureate_id,
        data |-> popped, file |-> save_laureates_to_file(f, popped, disk),
        fullName |-> GetOrNone(eliminado.fullName)]

\* ------------------------------------------------------------ aggregation
\* str.lower() on the strings the requests and the records use
Lower(s) ==
  CASE s \in {"Physics", "PHYSICS", "physics"} -> "physics"
    [] s \in {"Peace", "peace"} -> "peace"
    [] s \in {"Chemistry", "chemistry"} -> "chemistry"
    [] s = "Niels Bohr" -> "niels bohr"
    [] s = "Red Cross" -> "red cross"
    [] s = "Marie Curie" -> "marie curie"
    [] s = "Ada Lovelace" -> "ada lovelace"
    [] s = "BOHR" -> "bohr"
    [] s = "X" -> "x"
    [] s = "None" -> "none"
    [] OTHER -> s

\* a < b for Python strings (by code point), on the category names in use
StrRank(s) ==
  CASE s = "Chemistry" -> 1
    [] s = "Peace" -> 2
    [] s = "Physics" -> 3
    [] s = "chemistry" -> 4
    [] s = "peace" -> 5
    [] s = "physics" -> 6
    [] OTHER -> 0

\* "needle in hay" for lowered strings
SubstringPairs ==
  { <<"niels bohr", "bohr">>, <<"niels bohr", "ie">>, <<"marie curie", "ie">>,
    <<"marie curie", "curie">>, <<"ada lovelace", "ada">> }

Contains(hay, needle) ==
  needle = "" \/ needle = hay \/ <<hay, needle>> \in SubstringPairs

\* the query parameters discipline, year and yearto; None when not given
Query(discipline, year, yearto) ==
  [discipline |-> discipline, year |-> year, yearto |-> yearto]
NoFilter == Query(Null, NullNum, NullNum)

\* mutant: the upper bound of the year filter is exclusive
InRangeExclusive(year, yearto, award_year) ==
  LET isInt == award_year.k = "int"
      a == award_year.n
  IN
  IF year.k # "null" /\ yearto.k # "null"
  THEN IF ~isInt THEN "raise"
       ELSE IF year.n <= a /\ a < yearto.n THEN "in" ELSE "out"
  ELSE IF year.k # "null"
  THEN IF isInt /\ a = year.n THEN "in" ELSE "out"
  ELSE IF yearto.k # "null"
  THEN IF ~isInt THEN "raise"
       ELSE IF a < yearto.n THEN "in" ELSE "out"
  ELSE "in"

\* the year test of both aggregations on an award_year that is not None:
\* "in", "out", or "raise" where a str is ordered against an int (TypeError);
\* a str is never == an int
in_range(year, yearto, award_year) ==
  LET isInt == award_year.k = "int"
      a == award_year.n
  IN
  IF year.k # "null" /\ yearto.k # "null"
  THEN IF ~isInt THEN "raise"
       ELSE IF year.n <= a /\ a <= yearto.n THEN "in" ELSE "out"
  ELSE IF year.k # "null"
  THEN IF isInt /\ a = year.n THEN "in" ELSE "out"
  ELSE IF yearto.k # "null"
  THEN IF ~isInt THEN "raise"
       ELSE IF a <= yearto.n THEN "in" ELSE "out"
  ELSE "in"

\* every prize of the collection with its laureate, in the order of the two
\* nested loops
RECURSIVE Flat(_)
Flat(data) ==
  IF data = <<>> THEN <<>>
  ELSE LET laureate == Head(data)
           n == Len(laureate.nobelPrizes)
       IN SubSeq([j \in 1..n |-> [laureate |-> laureate, prize |-> laureate.nobelPrizes[j]]], 1, n)
            \o Flat(Tail(data))

\* what the loop body of compute_country_counts does with one prize
CountryVerdict(prize, q) ==
  IF /\ q.discipline.k # "null"
     /\ (~Truthy(prize.category) \/ Lower(prize.category.s) # Lower(q.discipline.s))
  THEN "out"
  ELSE IF prize.awardYear.k \in {"null", "absent"}
  THEN "out"
  ELSE in_range(q.year, q.yearto, prize.awardYear)

\* country_counts[name] = country_counts.get(name, 0) + 1, the dict in
\* insertion order
Bump(country_counts, name) ==
  LET hits == {i \in 1..Len(country_counts) : country_counts[i].country = name} IN
  IF hits = {}
  THEN Append(country_counts, [country |-> name, count |-> 1])
  ELSE LET i == CHOOSE i \in hits : TRUE IN
       [country_counts EXCEPT ![i].count = @ + 1]

\* mutant: an empty or missing country is counted under its own value
CountryNameRaw(laureate) == laureate.birthCountry.s

\* laureate.get("birthCountry") or "Unknown"
CountryName(laureate) ==
  IF Truthy(laureate.birthCountry) THEN laureate.birthCountry.s ELSE "Unknown"

RECURSIVE CountLoop(_, _, _)
CountLoop(entries, country_counts, q) ==
  IF entries = <<>> THEN [raised |-> FALSE, counts |-> country_counts]
  ELSE LET e == Head(entries)
           v == CountryVerdict(e.prize, q)
       IN
       IF v = "raise" THEN [raised |-> TRUE, counts |-> <<>>]
       ELSE CountLoop(Tail(entries),
                      IF v = "in" THEN Bump(country_counts, CountryName(e.laureate))
                      ELSE country_counts,
                      q)

compute_country_counts(data, q) == CountLoop(Flat(data), <<>>, q)

\* mutant: the sort is not stable, equal counts come out in reverse order
RECURSIVE SortedByCountUnstable(_, _)
SortedByCountUnstable(items, out) ==
  IF items = <<>> THEN out
  ELSE LET x == Head(items)
           k == Cardinality({i \in 1..Len(out) : out[i].count > x.count})
       IN SortedByCountUnstable(Tail(items),
                                SubSeq(out, 1, k) \o <<x>> \o SubSeq(out, k + 1, Len(out)))

\* sorted(items, key=count, reverse=True): descending, items of equal count
\* keep the order they had
RECURSIVE SortedByCount(_, _)
SortedByCount(items, out) ==
  IF items = <<>> THEN out
  ELSE LET x == Head(items)
           k == Cardinality({i \in 1..Len(out) : out[i].count >= x.count})
       IN SortedByCount(Tail(items),
                        SubSeq(out, 1, k) \o <<x>> \o SubSeq(out, k + 1, Len(out)))

RECURSIVE SumCounts(_)
SumCounts(items) ==
  IF items = <<>> THEN 0 ELSE Head(items).count + SumCounts(Tail(items))

\* what a read handler leaves behind: the status and, of the body, the
\* parameters it repeats, the count and the results
ReadOutcome(st, echo, total_count, results) ==
  [status |-> st, echo |-> echo, total_count |-> total_count, results |-> results]

NoEcho == [none |-> TRUE]

\* an exception escapes the handler
ReadRaised == ReadOutcome(500, NoEcho, 0, <<>>)

\* body of GET /countries
GetCountriesResult(data, q) ==
  LET cc == compute_country_counts(data, q) IN
  IF cc.raised THEN ReadRaised
  ELSE ReadOutcome(200, q, SumCounts(cc.counts), SortedByCount(cc.counts, <<>>))

\* what the loop body of get_laureates does with one prize
LaureateVerdict(prize, q) ==
  IF ~Truthy(prize.category)
  THEN "out"
  ELSE IF q.discipline.k # "null" /\ Lower(prize.category.s) # Lower(q.discipline.s)
  THEN "out"
  ELSE IF prize.awardYear.k \in {"null", "absent"}
  THEN "out"
  ELSE in_range(q.year, q.yearto, prize.awardYear)

\* laureate.get("fullName") or "Nombre desconocido"
DisplayName(laureate) ==
  IF Truthy(laureate.fullName) THEN laureate.fullName.s ELSE "Nombre desconocido"

\* year_groups.setdefault(award_year, {}).setdefault(cat_en, []).append(full_name),
\* the groups kept as a sequence of [awardYear, discipline, laureates]
AddName(year_groups, award_year, cat_en, full_name) ==
  LET hits == {i \in 1..Len(year_groups) :
                 year_groups[i].awardYear = award_year /\ year_groups[i].discipline = cat_en}
  IN
  IF hits = {}
  THEN Append(year_groups,
              [awardYear |-> award_year, discipline |-> cat_en, laureates |-> <<full_name>>])
  ELSE LET i == CHOOSE i \in hits : TRUE IN
       [year_groups EXCEPT ![i].laureates = Append(@, full_name)]

RECURSIVE GroupLoop(_, _, _)
GroupLoop(entries, year_groups, q) ==
  IF entries = <<>> THEN [raised |-> FALSE, groups |-> year_groups]
  ELSE LET e == Head(entries)
           v == LaureateVerdict(e.prize, q)
       IN
       IF v = "raise" THEN [raised |-> TRUE, groups |-> <<>>]
       ELSE GroupLoop(Tail(entries),
                      IF v = "in"
                      THEN AddName(year_groups, e.prize.awardYear, e.prize.category.s,
                                   DisplayName(e.laureate))
                      ELSE year_groups,
                      q)

\* the order of the two nested sorted(): by year, then by discipline name
GroupBefore(a, b) ==
  \/ a.awardYear.n < b.awardYear.n
  \/ a.awardYear.n = b.awardYear.n /\ StrRank(a.discipline) < StrRank(b.discipline)

\* mutant: the years come out in the order they were first met
UnsortedGroups(groups, out) == groups

RECURSIVE SortedGroups(_, _)
SortedGroups(groups, out) ==
  IF groups = <<>> THEN out
  ELSE LET x == Head(groups)
           k == Cardinality({i \in 1..Len(out) : GroupBefore(out[i], x)})
       IN SortedGroups(Tail(groups),
                       SubSeq(out, 1, k) \o <<x>> \o SubSeq(out, k + 1, Len(out)))

\* sorted(year_groups.keys()) raises TypeError when int and str years are mixed
MixedYears(groups) ==
  \E i, j \in 1..Len(groups) :
    groups[i].awardYear.k = "int" /\ groups[j].awardYear.k # "int"

WithCount(group) ==
  [awardYear |-> group.awardYear, discipline |-> group.discipline,
   count |-> Len(group.laureates), laureates |-> group.laureates]

\* body of GET /laureates; the nested results list is kept flat, one entry per
\* (awardYear, discipline), in the order of the nested lists
GetLaureatesResult(data, q) ==
  LET g == GroupLoop(Flat(data), <<>>, q)
      sorted == SortedGroups(g.groups, <<>>)
      results == [i \in 1..Len(sorted) |-> WithCount(sorted[i])]
  IN
  IF g.raised \/ MixedYears(g.groups) THEN ReadRaised
  ELSE ReadOutcome(200, q, SumCounts(results), SubSeq(results, 1, Len(results)))

\* body of GET /laureates/search: laureate.get("fullName", "").lower() raises
\* AttributeError on a null fullName
SearchResult(data, name) ==
  LET name_lower == Lower(name)
      FullName(l) == IF l.fullName.k = "absent" THEN "" ELSE l.fullName.s
      hits == SelectSeq(data, LAMBDA l : Contains(Lower(FullName(l)), name_lower))
  IN
  IF \E i \in 1..Len(data) : data[i].fullName.k = "null"
  THEN ReadRaised
  ELSE ReadOutcome(200, [query |-> name], Len(hits), hits)

\* ------------------------------------------------------------------ state
VARIABLES
  LAUREATES_DATA,   \* the in-memory collection
  file,             \* data/laureates.json
  cubos_ip,         \* per client address, the timestamps the limiter holds
  clock,            \* datetime.utcnow(), in ticks
  response,         \* the response to the latest request
  body,             \* the aggregation the latest read request returned
  threads,          \* per worker thread, the request it is serving and how far it is
  admitted,         \* history: per client address, every timestamp ever admitted
  everMaxId         \* history: the largest numeric id the collection ever held

vars == <<LAUREATES_DATA, file, cubos_ip, clock, response, body, threads, admitted, everMaxId>>

\* a response: `stage` is the last piece of code the request reached,
\* `challenge` the WWW-Authenticate header, `id` the id of the record reported
Resp(method, path, status, stage, challenge, id) ==
  [method |-> method, path |-> path, status |-> status, stage |-> stage,
   challenge |-> challenge, id |-> id]

NoResponse == Resp("", "", 0, "", FALSE, AbsentNum)

\* the JSON body of a read: the parameters repeated, the count, the results
Body200(out) == [echo |-> out.echo, total_count |-> out.total_count, results |-> out.results]
NoBody == [echo |-> NoEcho, total_count |-> 0, results |-> <<>>]

\* mutant: the timestamp is recorded once the request has succeeded, so a
\* request that fails takes no slot
RunMutatingSoloExitosas(method, path, ip, cred, out) ==
  LET lim == limitador(method, cubos_ip[ip], clock)
      ok == verificar_credenciales(cred)
      counted == lim.allowed /\ ok /\ out.status = 200
  IN
  [allowed |-> lim.allowed, recorded |-> counted,
   cubo |-> IF counted THEN lim.cubo ELSE Evict(cubos_ip[ip], clock),
   data |-> IF lim.allowed /\ ok THEN out.data ELSE LAUREATES_DATA,
   file |-> IF lim.allowed /\ ok THEN out.file ELSE file,
   detail |-> NoDetail,
   resp |-> IF ~lim.allowed THEN Resp(method, path, 429, "limitador", FALSE, AbsentNum)
            ELSE IF ~ok THEN Resp(method, path, 401, "verificar_credenciales", TRUE, AbsentNum)
            ELSE Resp(method, path, out.status, "handler", FALSE, out.id),
   body |-> NoBody]

\* mutant: the handler is called before the limit is tested, so a denied
\* request has already been processed when the 429 is returned
RunMutatingTarde(method, path, ip, cred, out) ==
  LET lim == limitador(method, cubos_ip[ip], clock)
      ok == verificar_credenciales(cred)
  IN
  IF ~lim.allowed
  THEN [allowed |-> FALSE, recorded |-> lim.recorded, cubo |-> lim.cubo,
        data |-> IF ok THEN out.data ELSE LAUREATES_DATA,
        file |-> IF ok THEN out.file ELSE file,
        detail |-> Detail("Demasiadas solicitudes de modificacion", ""),
        resp |-> Resp(method, path, 429, "limitador", FALSE, AbsentNum),
        body |-> NoBody]
  ELSE IF ~ok
  THEN [allowed |-> TRUE, recorded |-> lim.recorded, cubo |-> lim.cubo,
        data |-> LAUREATES_DATA, file |-> file,
        detail |-> Detail("Credenciales incorrectas", ""),
        resp |-> Resp(method, path, 401, "verificar_credenciales", TRUE, AbsentNum),
        body |-> NoBody]
  ELSE [allowed |-> TRUE, recorded |-> lim.recorded, cubo |-> lim.cubo,
        data |-> out.data, file |-> out.file,
        detail |-> out.detail,
        resp |-> Resp(method, path, out.status, "handler", FALSE, out.id),
        body |-> NoBody]

\* ------------------------------------------------------ a request, whole
\* The middleware runs first, then the credentials dependency, then the
\* handler body; `out` is what the handler body would leave behind.
RunMutating(method, path, ip, cred, out) ==
  LET lim == limitador(method, cubos_ip[ip], clock) IN
  IF ~lim.allowed
  THEN [allowed |-> FALSE, recorded |-> lim.recorded, cubo |-> lim.cubo,
        data |-> LAUREATES_DATA, file |-> file,
        detail |-> Detail("Demasiadas solicitudes de modificacion", ""),
        resp |-> Resp(method, path, 429, "limitador", FALSE, AbsentNum),
        body |-> NoBody]
  ELSE IF ~verificar_credenciales(cred)
  THEN [allowed |-> TRUE, recorded |-> lim.recorded, cubo |-> lim.cubo,
        data |-> LAUREATES_DATA, file |-> file,
        detail |-> Detail("Credenciales incorrectas", ""),
        resp |-> Resp(method, path, 401, "verificar_credenciales", TRUE, AbsentNum),
        body |-> NoBody]
  ELSE [allowed |-> TRUE, recorded |-> lim.recorded, cubo |-> lim.cubo,
        data |-> out.data, file |-> out.file,
        detail |-> out.detail,
        resp |-> Resp(method, path, out.status, "handler", FALSE, out.id),
        body |-> NoBody]

POST_laureates(ip, cred, payload, disk) ==
  RunMutating("POST", "/laureates", ip, cred,
              CreateResult(LAUREATES_DATA, file, payload, disk))

PUT_laureates(ip, cred, laureate_id, payload, disk) ==
  RunMutating("PUT", "/laureates/{laureate_id}", ip, cred,
              UpdateResult(LAUREATES_DATA, file, laureate_id, payload, disk))

DELETE_laureates(ip, cred, laureate_id, disk) ==
  RunMutating("DELETE", "/laureates/{laureate_id}", ip, cred,
              DeleteResult(LAUREATES_DATA, file, laureate_id, disk))

\* mutant: the read handler takes the first record out of the collection
RunReadConsuming(path, ip, out) ==
  LET lim == limitador("GET", cubos_ip[ip], clock) IN
  [allowed |-> lim.allowed, recorded |-> lim.recorded, cubo |-> lim.cubo,
   data |-> IF LAUREATES_DATA = <<>> THEN <<>> ELSE Tail(LAUREATES_DATA),
   file |-> file, detail |-> NoDetail,
   resp |-> IF lim.allowed
            THEN Resp("GET", path, out.status, "handler", FALSE, AbsentNum)
            ELSE Resp("GET", path, 429, "limitador", FALSE, AbsentNum),
   body |-> IF lim.allowed /\ out.status = 200 THEN Body200(out) ELSE NoBody]

\* a read request: no credentials; `out` is what the handler body returns,
\* it assigns nothing to the collection and does not open the file
RunRead(path, ip, out) ==
  LET lim == limitador("GET", cubos_ip[ip], clock) IN
  [allowed |-> lim.allowed, recorded |-> lim.recorded, cubo |-> lim.cubo,
   data |-> LAUREATES_DATA, file |-> file, detail |-> NoDetail,
   resp |-> IF lim.allowed
            THEN Resp("GET", path, out.status, "handler", FALSE, AbsentNum)
            ELSE Resp("GET", path, 429, "limitador", FALSE, AbsentNum),
   body |-> IF lim.allowed /\ out.status = 200 THEN Body200(out) ELSE NoBody]

GET_laureates(ip, q) ==
  RunRead("/laureates", ip, GetLaureatesResult(LAUREATES_DATA, q))

GET_countries(ip, q) ==
  RunRead("/countries", ip, GetCountriesResult(LAUREATES_DATA, q))

GET_laureates_search(ip, name) ==
  RunRead("/laureates/search", ip, SearchResult(LAUREATES_DATA, name))

\* the state after a request
Commit(ip, r) ==
  /\ cubos_ip' = [cubos_ip EXCEPT ![ip] = r.cubo]
  /\ admitted' = IF r.recorded THEN [admitted EXCEPT ![ip] = Append(@, clock)] ELSE admitted
  /\ LAUREATES_DATA' = r.data
  /\ file' = r.file
  /\ response' = r.resp
  /\ body' = r.body
  /\ everMaxId' = Max(everMaxId, MaxIdFrom(r.data, 0))
  /\ UNCHANGED <<clock, threads>>

\* ---------------------------------------------------------------- actions
create_laureate(ip, cred, payload, disk) ==
  /\ Len(LAUREATES_DATA) < MaxLen
  /\ Commit(ip, POST_laureates(ip, cred, payload, disk))

update_laureate(ip, cred, laureate_id, payload, disk) ==
  Commit(ip, PUT_laureates(ip, cred, laureate_id, payload, disk))

delete_laureate(ip, cred, laureate_id, disk) ==
  Commit(ip, DELETE_laureates(ip, cred, laureate_id, disk))

get_laureates(ip, q) == Commit(ip, GET_laureates(ip, q))

get_countries(ip, q) == Commit(ip, GET_countries(ip, q))

search_laureates(ip, name) == Commit(ip, GET_laureates_search(ip, name))

\* time passes between requests
Tick ==
  /\ clock < MaxTime
  /\ clock' = clock + 1
  /\ UNCHANGED <<LAUREATES_DATA, file, cubos_ip, response, body, threads, admitted, everMaxId>>

\* ------------------------------------------------------------------ inputs
Clients == {"10.0.0.1", "10.0.0.2"}
FirstClient == "10.0.0.1"
SecondClient == "10.0.0.2"

Cred(u, p) == [username |-> u, password |-> p]
Admin == Cred("admin", "nobel2025")
Creds == {Admin, Cred("admin", "nobel"), Cred("eve", "nobel2025")}
LimCreds == {Admin, Cred("eve", "nobel2025")}

Physics2025 == Prize(JInt(2025), Str("Physics"), Str("For demo purposes"))
Physics2025s == Prize(Dec(2025), Str("Physics"), Str("For demo purposes"))
Peace2026 == Prize(JInt(2026), Str("Peace"), Str("For homework"))
BadYear == Prize(Txt(1), Str("Physics"), Str("For demo purposes"))
NoYear == Prize(AbsentNum, Str("Physics"), Str("For demo purposes"))
NoMotivation == Prize(JInt(2025), Str("Physics"), Str(""))
NullCategory == Prize(JInt(2025), Null, Str("For demo purposes"))

Body(fn, g, bd, bc, bk, np) ==
  [fullName |-> fn, gender |-> g, birthDate |-> bd, birthCity |-> bc,
   birthCountry |-> bk, nobelPrizes |-> np]

\* the same body with an "id" member, which no handler reads
WithId(payload, id) ==
  [x \in DOMAIN payload \cup {"id"} |-> IF x = "id" THEN id ELSE payload[x]]

Ada(np) == Body(Str("Ada Lovelace"), Str("female"), Str("1815-12-10"), Str("London"),
                Str("United Kingdom"), np)

ValidCreates == { Ada(List(<<Physics2025>>)), Ada(List(<<Physics2025s>>)) }

InvalidCreates ==
  { Body(Str("Ada Lovelace"), Str("female"), Str("1815-12-10"), Str("London"), Absent,
         List(<<Physics2025>>)),
    Ada(NoPrizes),
    Ada(List(<<>>)),
    Ada(NotAList),
    Ada(List(<<Physics2025, BadYear>>)),
    Ada(List(<<NoMotivation>>)),
    Ada(List(<<NullCategory>>)),
    Ada(List(<<NotADict>>)) }

CreatePayloads == ValidCreates \cup InvalidCreates

ValidUpdates ==
  { Body(Absent, Absent, Absent, Absent, Str("Argentina"), List(<<Peace2026>>)),
    Body(Null, Absent, Absent, Absent, Absent, NullPrizes) }

InvalidUpdates ==
  { Body(Str("X"), Absent, Absent, Absent, Absent, List(<<>>)),
    Body(Str("X"), Absent, Absent, Absent, Absent, NotAList),
    Body(Str("X"), Absent, Absent, Absent, Str("Argentina"), List(<<Peace2026, NoYear>>)) }

UpdatePayloads == ValidUpdates \cup InvalidUpdates

RequestIds == {Dec(1), Dec(2), Dec(3)}

Stored(id, fn, g, bd, bc, bk, np) ==
  [id |-> id, fullName |-> fn, gender |-> g, birthDate |-> bd, birthCity |-> bc,
   birthCountry |-> bk, nobelPrizes |-> np]

Bohr == Stored(Dec(1), Str("Niels Bohr"), Str("male"), Str("1885-10-07"), Str("Copenhagen"),
               Str("Denmark"), <<StoredPrize(1922, Str("Physics"), Str("atoms"))>>)

RedCross == Stored(Pad(2), Str("Red Cross"), Str("unknown"), Null, Null, Null,
                   <<StoredPrize(1917, Str("Peace"), Str("relief")),
                     StoredPrize(1944, Str("Peace"), Str("relief"))>>)

Curie == Stored(JInt(3), Str("Marie Curie"), Str("female"), Str("1867-11-07"), Str("Warsaw"),
                Str("Poland"), <<StoredPrize(1903, Str("Physics"), Str("radiation"))>>)

InitialFiles == { Dump(<<Bohr>>), Dump(<<RedCross, Curie>>) }

\* ------------------------------------------------- requests in flight
\* The handlers are plain `def` functions, which the framework runs on the
\* threads of a pool: the statements of two requests can interleave. The
\* middleware is a coroutine without an await between its first statement and
\* call_next, so it runs as one step.
Threads == {1, 2}

NoPayload == Body(Absent, Absent, Absent, Absent, Absent, NoPrizes)
NoRecord == Stored(AbsentNum, Absent, Absent, Absent, Absent, Absent, <<>>)

\* pc: "idle", "arrived" (received, the middleware has not run), then the next
\* statement of the handler: "allocate", "append" (create_laureate), "lookup",
\* "fields", "assign" (update_laureate), "pop" (delete_laureate), "dump",
\* "close" (save_laureates_to_file), "done" (answered);
\* snapshot: the client's bucket when the request arrived; seen: how many
\* timestamps the middleware counted; target: the laureate_id of the path;
\* idx, nuevo, laureate, dumped: the locals idx, nuevo_laureado, laureate and
\* the document json.dump has produced
IdleThread ==
  [pc |-> "idle", method |-> "", ip |-> "", cred |-> Cred("", ""), payload |-> NoPayload,
   snapshot |-> <<>>, seen |-> 0, allowed |-> FALSE, nuevo |-> NoRecord,
   status |-> 0, id |-> AbsentNum, target |-> AbsentNum, idx |-> 0,
   laureate |-> NoRecord, dumped |-> <<>>]

\* requests that may still append a record
Creating == {t \in Threads : threads[t].pc \in {"arrived", "allocate", "append"}}

\* a POST /laureates reaches the server
request_arrives(t, ip, cred, payload) ==
  /\ threads[t].pc = "idle"
  /\ Len(LAUREATES_DATA) + Cardinality(Creating) < MaxLen
  /\ threads' = [threads EXCEPT ![t] =
                   [IdleThread EXCEPT !.pc = "arrived", !.method = "POST", !.ip = ip,
                                      !.cred = cred, !.payload = payload,
                                      !.snapshot = cubos_ip[ip]]]
  /\ UNCHANGED <<LAUREATES_DATA, file, cubos_ip, clock, response, body, admitted, everMaxId>>

\* a PUT or a DELETE /laureates/{laureate_id} reaches the server
request_arrives_for(t, method, ip, cred, laureate_id, payload) ==
  /\ threads[t].pc = "idle"
  /\ threads' = [threads EXCEPT ![t] =
                   [IdleThread EXCEPT !.pc = "arrived", !.method = method, !.ip = ip,
                                      !.cred = cred, !.payload = payload,
                                      !.target = laureate_id,
                                      !.snapshot = cubos_ip[ip]]]
  /\ UNCHANGED <<LAUREATES_DATA, file, cubos_ip, clock, response, body, admitted, everMaxId>>

\* mutant: the middleware decides on the bucket as it was when the request
\* arrived, as if it had waited between reading the bucket and recording
ObservedAtArrival(t) == threads[t].snapshot

\* cubos_ip.setdefault(ip, deque()): the bucket the middleware works on
Observed(t) == cubos_ip[threads[t].ip]

PathOf(method) == IF method = "POST" THEN "/laureates" ELSE "/laureates/{laureate_id}"

\* the answer of thread t
Answer(t, status, id) ==
  Resp(threads[t].method, PathOf(threads[t].method), status,
       CASE status = 429 -> "limitador"
         [] status = 401 -> "verificar_credenciales"
         [] OTHER -> "handler",
       status = 401, id)

\* the middleware, the credentials and the validation of create_laureate, none
\* of which reads the collection
middleware(t) ==
  LET th == threads[t]
      lim == limitador(th.method, Observed(t), clock)
      missing == FirstMissing(th.payload)
      cp == CleanPrizes(th.payload.nobelPrizes)
      status == IF ~lim.allowed THEN 429
                ELSE IF ~verificar_credenciales(th.cred) THEN 401
                ELSE IF th.method = "POST" /\ (missing # "" \/ ~cp.ok) THEN 400
                ELSE 0
      seen == [th EXCEPT !.seen = Len(Evict(Observed(t), clock)), !.allowed = lim.allowed]
  IN
  /\ th.pc = "arrived"
  /\ cubos_ip' = [cubos_ip EXCEPT ![th.ip] = lim.cubo]
  /\ admitted' = IF lim.recorded THEN [admitted EXCEPT ![th.ip] = Append(@, clock)]
                 ELSE admitted
  /\ IF status = 0
     THEN /\ threads' = [threads EXCEPT ![t] =
                           [seen EXCEPT !.pc = IF th.method = "POST" THEN "allocate"
                                               ELSE "lookup"]]
          /\ UNCHANGED <<response, body>>
     ELSE /\ threads' = [threads EXCEPT ![t] = [seen EXCEPT !.pc = "done", !.status = status]]
          /\ response' = Answer(t, status, AbsentNum)
          /\ body' = NoBody
  /\ UNCHANGED <<LAUREATES_DATA, file, clock, everMaxId>>

\* nuevo_laureado = {"id": _get_next_laureate_id(), ...}
create_allocate(t) ==
  LET th == threads[t]
      cp == CleanPrizes(th.payload.nobelPrizes)
      nuevo_laureado ==
        [id |-> _get_next_laureate_id(LAUREATES_DATA),
         fullName |-> PyStrText(th.payload.fullName),
         gender |-> PyStrText(th.payload.gender),
         birthDate |-> PyStrText(th.payload.birthDate),
         birthCity |-> PyStrText(th.payload.birthCity),
         birthCountry |-> PyStrText(th.payload.birthCountry),
         nobelPrizes |-> cp.prizes]
  IN
  /\ th.pc = "allocate"
  /\ threads' = [threads EXCEPT ![t] = [th EXCEPT !.pc = "append", !.nuevo = nuevo_laureado]]
  /\ UNCHANGED <<LAUREATES_DATA, file, cubos_ip, clock, response, body, admitted, everMaxId>>

\* LAUREATES_DATA.append(nuevo_laureado)
create_append(t) ==
  /\ threads[t].pc = "append"
  /\ LAUREATES_DATA' = Append(LAUREATES_DATA, threads[t].nuevo)
  /\ everMaxId' = Max(everMaxId, MaxIdFrom(LAUREATES_DATA', 0))
  /\ threads' = [threads EXCEPT ![t].pc = "dump", ![t].id = threads[t].nuevo.id]
  /\ UNCHANGED <<file, cubos_ip, clock, response, body, admitted>>

\* idx = _find_laureate_index_by_id(laureate_id), 404 when None; in
\* update_laureate also laureate = LAUREATES_DATA[idx], the stored object
lookup(t) ==
  LET th == threads[t]
      idx == _find_laureate_index_by_id(LAUREATES_DATA, th.target)
  IN
  /\ th.pc = "lookup"
  /\ IF idx = 0
     THEN /\ threads' = [threads EXCEPT ![t].pc = "done", ![t].status = 404]
          /\ response' = Answer(t, 404, AbsentNum)
          /\ body' = NoBody
     ELSE /\ threads' = [threads EXCEPT ![t] =
                           [th EXCEPT !.idx = idx,
                                      !.pc = IF th.method = "PUT" THEN "fields" ELSE "pop",
                                      !.laureate = IF th.method = "PUT"
                                                   THEN LAUREATES_DATA[idx] ELSE NoRecord]]
          /\ UNCHANGED <<response, body>>
  /\ UNCHANGED <<LAUREATES_DATA, file, cubos_ip, clock, admitted, everMaxId>>

\* eliminado = LAUREATES_DATA.pop(idx): IndexError when the list has become
\* shorter than idx
delete_pop(t) ==
  LET th == threads[t] IN
  /\ th.pc = "pop"
  /\ IF th.idx <= Len(LAUREATES_DATA)
     THEN /\ LAUREATES_DATA' = PopAt(LAUREATES_DATA, th.idx)
          /\ threads' = [threads EXCEPT ![t] =
                           [th EXCEPT !.pc = "dump", !.id = th.target,
                                      !.laureate = LAUREATES_DATA[th.idx]]]
          /\ UNCHANGED <<response, body>>
     ELSE /\ threads' = [threads EXCEPT ![t].pc = "done", ![t].status = 500]
          /\ response' = Answer(t, 500, AbsentNum)
          /\ body' = NoBody
          /\ UNCHANGED LAUREATES_DATA
  /\ UNCHANGED <<file, cubos_ip, clock, admitted, everMaxId>>

\* the places of the collection that hold the object `laureate` refers to (the
\* records are told apart by their ids)
PlacesOf(laureate) ==
  {i \in 1..Len(LAUREATES_DATA) : LAUREATES_DATA[i].id = laureate.id}

\* the writes to the fields of `laureate` and the validation of nobelPrizes:
\* the object is written where it is, in the collection or no longer in it
update_fields(t) ==
  LET th == threads[t]
      has_prizes == th.payload.nobelPrizes.k \notin {"absent", "null"}
      cp == CleanPrizes(th.payload.nobelPrizes)
      touched == SetSimpleFields(th.laureate, th.payload)
      written == IF has_prizes /\ cp.ok
                 THEN [touched EXCEPT !.nobelPrizes = cp.prizes]
                 ELSE touched
  IN
  /\ th.pc = "fields"
  /\ LAUREATES_DATA' = [i \in 1..Len(LAUREATES_DATA) |->
                          IF i \in PlacesOf(th.laureate) THEN written
                          ELSE LAUREATES_DATA[i]]
  /\ IF has_prizes /\ ~cp.ok
     THEN /\ threads' = [threads EXCEPT ![t].pc = "done", ![t].status = 400]
          /\ response' = Answer(t, 400, AbsentNum)
          /\ body' = NoBody
     ELSE /\ threads' = [threads EXCEPT ![t] = [th EXCEPT !.pc = "assign",
                                                           !.laureate = written]]
          /\ UNCHANGED <<response, body>>
  /\ UNCHANGED <<file, cubos_ip, clock, admitted, everMaxId>>

\* LAUREATES_DATA[idx] = laureate: IndexError when the list has become shorter
\* than idx
update_assign(t) ==
  LET th == threads[t] IN
  /\ th.pc = "assign"
  /\ IF th.idx <= Len(LAUREATES_DATA)
     THEN /\ LAUREATES_DATA' = [LAUREATES_DATA EXCEPT ![th.idx] = th.laureate]
          /\ threads' = [threads EXCEPT ![t].pc = "dump", ![t].id = th.laureate.id]
          /\ UNCHANGED <<response, body>>
     ELSE /\ threads' = [threads EXCEPT ![t].pc = "done", ![t].status = 500]
          /\ response' = Answer(t, 500, AbsentNum)
          /\ body' = NoBody
          /\ UNCHANGED LAUREATES_DATA
  /\ UNCHANGED <<file, cubos_ip, clock, admitted, everMaxId>>

\* save_laureates_to_file() up to the end of json.dump: open(DATA_FILE, "w")
\* empties the file and the document of the collection as it is now goes to
\* the buffer of the file object; an OSError ends the request with 500
save_dump(t, disk) ==
  LET th == threads[t] IN
  /\ th.pc = "dump"
  /\ IF disk = "ok"
     THEN /\ file' = CorruptFile
          /\ threads' = [threads EXCEPT ![t].pc = "close", ![t].dumped = LAUREATES_DATA]
          /\ UNCHANGED <<response, body>>
     ELSE /\ file' = save_laureates_to_file(file, LAUREATES_DATA, disk)
          /\ threads' = [threads EXCEPT ![t].pc = "done", ![t].status = SaveStatus(disk)]
          /\ response' = Answer(t, SaveStatus(disk), th.id)
          /\ body' = NoBody
  /\ UNCHANGED <<LAUREATES_DATA, cubos_ip, clock, admitted, everMaxId>>

\* what the file holds once the buffer is written from offset 0: the document,
\* when the file is still empty; when another request has written the file in
\* between, the document if it is at least as long as what is there, and
\* otherwise its bytes followed by the end of the other's, which is no document
Flushed(f, document) ==
  IF f = CorruptFile \/ f = document THEN {document} ELSE {document, CorruptFile}

\* the end of the with block closes the file, which writes the buffer; then
\* the handler returns
save_close(t) ==
  /\ threads[t].pc = "close"
  /\ file' \in Flushed(file, Dump(threads[t].dumped))
  /\ threads' = [threads EXCEPT ![t].pc = "done", ![t].status = 200]
  /\ response' = Answer(t, 200, threads[t].id)
  /\ body' = NoBody
  /\ UNCHANGED <<LAUREATES_DATA, cubos_ip, clock, admitted, everMaxId>>

\* the thread goes back to the pool
thread_returns(t) ==
  /\ threads[t].pc = "done"
  /\ threads' = [threads EXCEPT ![t] = IdleThread]
  /\ UNCHANGED <<LAUREATES_DATA, file, cubos_ip, clock, response, body, admitted, everMaxId>>

\* ------------------------------------------------------------ specification
\* on_startup: the file is loaded as it is
Start(files, now) ==
  /\ file \in files
  /\ LAUREATES_DATA = load_laureates_into_memory(file)
  /\ cubos_ip = [ip \in Clients |-> <<>>]
  /\ clock = now
  /\ response = NoResponse
  /\ body = NoBody
  /\ threads = [t \in Threads |-> IdleThread]
  /\ admitted = [ip \in Clients |-> <<>>]
  /\ everMaxId = MaxIdFrom(LAUREATES_DATA, 0)

\* Spec: one client sends a burst of requests of every kind within one window
SpecCreates ==
  ValidCreates \cup
  { Body(Str("Ada Lovelace"), Str("female"), Str("1815-12-10"), Str("London"), Absent,
         List(<<Physics2025>>)),
    Ada(List(<<Physics2025, BadYear>>)) }

Init == Start(InitialFiles, 0)

\* requests with the right credentials; a payload that fails validation is
\* answered before the file is opened, so the disk has no part in its outcome
Authorized(ip) ==
  \/ \E payload \in ValidCreates, disk \in DiskOutcomes :
       create_laureate(ip, Admin, payload, disk)
  \/ \E payload \in SpecCreates \ ValidCreates :
       create_laureate(ip, Admin, payload, "ok")
  \/ \E id \in RequestIds, payload \in ValidUpdates, disk \in DiskOutcomes :
       update_laureate(ip, Admin, id, payload, disk)
  \/ \E id \in RequestIds, payload \in InvalidUpdates :
       update_laureate(ip, Admin, id, payload, "ok")
  \/ \E id \in RequestIds, disk \in DiskOutcomes :
       delete_laureate(ip, Admin, id, disk)

\* requests with a wrong password or an unknown user, for a record that
\* exists and for one that may not
Unauthorized(ip) ==
  \E cred \in Creds \ {Admin} :
    \/ create_laureate(ip, cred, Ada(List(<<Physics2025>>)), "ok")
    \/ update_laureate(ip, cred, Dec(1),
                       Body(Str("X"), Absent, Absent, Absent, Absent, NoPrizes), "ok")
    \/ delete_laureate(ip, cred, Dec(3), "ok")

Reads(ip) ==
  \/ get_laureates(ip, NoFilter)
  \/ get_countries(ip, NoFilter)
  \/ search_laureates(ip, "")

Next ==
  \/ Authorized("10.0.0.1")
  \/ Unauthorized("10.0.0.1")
  \/ Reads("10.0.0.1")

Spec == Init /\ [][Next]_vars

\* SpecRead: one client reads with every filter, between creates and deletes,
\* collections that hold several prizes per laureate, equal counts, a missing
\* country, a missing name, a missing category, a null year and a year kept
\* as a string
Bohr3 == Stored(Dec(1), Str("Niels Bohr"), Str("male"), Str("1885-10-07"), Str("Copenhagen"),
                Str("Denmark"),
                <<StoredPrize(1970, Str("Physics"), Str("atoms")),
                  StoredPrize(1980, Str("Physics"), Str("atoms")),
                  StoredPrize(1975, Str("physics"), Str("atoms"))>>)

RedCross4 == Stored(Pad(2), Str("Red Cross"), Str("unknown"), Null, Null, Null,
                    <<StoredPrize(1969, Str("Peace"), Str("relief")),
                      StoredPrize(1981, Str("Peace"), Str("relief")),
                      StoredPrize(1980, Str("Peace"), Str("relief")),
                      StoredPrize(1980, Str("Peace"), Str("relief"))>>)

Curie3 == Stored(JInt(3), Str("Marie Curie"), Str("female"), Str("1867-11-07"), Str("Warsaw"),
                 Str("Poland"),
                 <<StoredPrize(1975, Str("Physics"), Str("radiation")),
                   StoredPrize(1975, Str("Chemistry"), Str("radium")),
                   [awardYear |-> NullNum, category |-> Str("Physics"), motivation |-> Null]>>)

Nameless == Stored(Dec(4), Str(""), Str("unknown"), Null, Null, Str(""),
                   <<[awardYear |-> JInt(1975), category |-> Null, motivation |-> Null],
                     StoredPrize(1970, Str("Peace"), Str("relief")),
                     StoredPrize(1975, Str("Physics"), Str("relief"))>>)

Turing == Stored(Dec(7), Str("Alan Turing"), Str("male"), Str("1912-06-23"), Str("London"),
                 Str("United Kingdom"), <<StoredPrize(2025, Str("Physics"), Str("machines"))>>)

Legacy == Stored(Dec(5), Str("Legacy"), Str("unknown"), Null, Null, Str("Denmark"),
                 <<[awardYear |-> Dec(2025), category |-> Str("Physics"),
                    motivation |-> Str("kept as text")]>>)

ReadFiles ==
  { Dump(<<Bohr3, RedCross4>>), Dump(<<Curie3, Nameless>>), Dump(<<Turing>>),
    Dump(<<Bohr, Legacy>>), Dump(<<>>) }

Disciplines == {Null, Str("physics"), Str("Peace")}
Years == {NullNum, JInt(1970), JInt(1975)}
YearTos == {NullNum, JInt(1975), JInt(1980)}

Queries ==
  {Query(d, y, t) : d \in Disciplines, y \in Years, t \in YearTos}
    \cup {Query(Str("Physics"), JInt(2025), NullNum)}

Names == {"", "BOHR", "ie"}

InitRead == Start(ReadFiles, 0)

NextRead ==
  \/ \E q \in Queries : get_laureates(FirstClient, q)
  \/ \E q \in Queries : get_countries(FirstClient, q)
  \/ \E name \in Names : search_laureates(FirstClient, name)
  \/ create_laureate(FirstClient, Admin, Ada(List(<<Physics2025>>)), "ok")
  \/ \E id \in {Dec(1), Dec(8)} : delete_laureate(FirstClient, Admin, id, "ok")

SpecRead == InitRead /\ [][NextRead]_vars

\* SpecConc: one client sends creates, valid or not, with good or bad
\* credentials, that two threads serve at once
InitConc == Start({Dump(<<>>), Dump(<<Bohr>>)}, 0)

NextConc ==
  \E t \in Threads :
    \/ \E cred \in LimCreds, payload \in {Ada(List(<<Physics2025>>)), Ada(List(<<>>))} :
         request_arrives(t, FirstClient, cred, payload)
    \/ middleware(t)
    \/ create_allocate(t)
    \/ create_append(t)
    \/ \E disk \in {"ok", "write_fails"} : save_dump(t, disk)
    \/ save_close(t)
    \/ thread_returns(t)

SpecConc == InitConc /\ [][NextConc]_vars

\* SpecRace: one client sends deletes and updates of the first two records of
\* a collection of three, that two threads serve at once
Rename == Body(Str("X"), Absent, Absent, Absent, Absent, NoPrizes)

RaceIds == {Dec(1), Pad(2)}

InitRace == Start({Dump(<<Bohr, RedCross, Curie>>)}, 0)

\* the requests sent so far: those the middleware has seen and those waiting
Sent ==
  Len(admitted[FirstClient]) + Cardinality({t \in Threads : threads[t].pc = "arrived"})

NextRace ==
  \E t \in Threads :
    \/ \E id \in RaceIds :
         /\ Sent < MaxRequests
         /\ request_arrives_for(t, "DELETE", FirstClient, Admin, id, NoPayload)
    \/ \E id \in RaceIds :
         /\ Sent < MaxRequests
         /\ request_arrives_for(t, "PUT", FirstClient, Admin, id, Rename)
    \/ middleware(t)
    \/ lookup(t)
    \/ delete_pop(t)
    \/ update_fields(t)
    \/ update_assign(t)
    \/ save_dump(t, "ok")
    \/ save_close(t)
    \/ thread_returns(t)

SpecRace == InitRace /\ [][NextRace]_vars

\* SpecLim: two clients send mutating requests of every outcome (400, 401,
\* 404, 200) and a read while time passes; the requests of the second client
\* all fail (400, 401, 404)
InitLim == Start({Dump(<<Bohr>>)}, 0)

NextLim ==
  \/ \E ip \in Clients, cred \in LimCreds :
       create_laureate(ip, cred, Ada(List(<<>>)), "ok")
  \/ update_laureate(FirstClient, Admin, Dec(1),
                     Body(Null, Absent, Absent, Absent, Absent, NullPrizes), "ok")
  \/ \E ip \in Clients : delete_laureate(ip, Admin, Dec(3), "ok")
  \/ \E ip \in Clients : get_countries(ip, NoFilter)
  \/ Tick

SpecLim == InitLim /\ [][NextLim]_vars

\* SpecEdit: one client creates, updates and deletes, within one window, with
\* bodies that carry an empty or null name, an id, every subset of fields, and
\* prizes that pass or fail validation
Anonymous(fn) ==
  Body(fn, Str("female"), Str("1815-12-10"), Str("London"), Str("United Kingdom"),
       List(<<Physics2025>>))

EditCreates == {Ada(List(<<Physics2025>>)), Anonymous(Str("")), Anonymous(Null)}

EditUpdates ==
  { Body(Str(""), Absent, Absent, Absent, Absent, NoPrizes),
    WithId(Body(Str("X"), Null, Absent, Str("Paris"), Absent, NoPrizes), Dec(9)),
    Body(Absent, Str("female"), Str("1900-01-01"), Absent, Str("France"),
         List(<<Peace2026>>)),
    Body(Null, Absent, Absent, Absent, Absent, NullPrizes),
    Body(Str("X"), Absent, Absent, Absent, Absent, List(<<>>)) }

EditIds == {Dec(1), Dec(2), Pad(2), Dec(3)}

EditFiles == {Dump(<<Bohr, RedCross, Curie>>), Dump(<<Curie>>)}

InitEdit == Start(EditFiles, 0)

NextEdit ==
  \/ \E payload \in EditCreates : create_laureate(FirstClient, Admin, payload, "ok")
  \/ \E id \in EditIds, payload \in EditUpdates :
       update_laureate(FirstClient, Admin, id, payload, "ok")
  \/ \E id \in EditIds : delete_laureate(FirstClient, Admin, id, "ok")
  \/ search_laureates(FirstClient, "ie")

SpecEdit == InitEdit /\ [][NextEdit]_vars

\* ------------------------------------------------------------------ claims
Mutating == {"POST", "PUT", "DELETE"}

\* P holds of every mutating request the client ip can send with these
\* credentials, each taken as the outcome it would have in the current state
AllMutating(ip, cred, P(_)) ==
  /\ \A payload \in CreatePayloads, disk \in DiskOutcomes :
       P(POST_laureates(ip, cred, payload, disk))
  /\ \A id \in RequestIds, payload \in UpdatePayloads, disk \in DiskOutcomes :
       P(PUT_laureates(ip, cred, id, payload, disk))
  /\ \A id \in RequestIds, disk \in DiskOutcomes :
       P(DELETE_laureates(ip, cred, id, disk))

\* C1: no two records present in the collection have the same id, the ids
\* compared as strings
C1_IdsUnique ==
  \A i, j \in 1..Len(LAUREATES_DATA) :
    i # j => PyStr(LAUREATES_DATA[i].id) # PyStr(LAUREATES_DATA[j].id)

\* a create has succeeded after the record in front of the created one was
\* itself created and an older record deleted
C1_Witness ==
  /\ response.method = "POST" /\ response.status = 200
  /\ Len(LAUREATES_DATA) = 2
  /\ LAUREATES_DATA[1].id = Dec(2)
  /\ LAUREATES_DATA[2].id = response.id

\* C2: the id a successful create returns is numerically greater than every
\* numeric id the collection ever held (so than every id returned before, and
\* than the id of every deleted record)
C2_IdsNeverReused ==
  [][(/\ response'.method = "POST"
      /\ response'.status = 200
      /\ LAUREATES_DATA' # LAUREATES_DATA)
     => PyInt(response'.id).n > everMaxId]_vars

\* C3: an update that fails with 400 because of its nobelPrizes leaves the
\* collection in memory as it was
C3_FailedUpdateChangesNothing ==
  [][(response'.method = "PUT" /\ response'.status = 400)
     => LAUREATES_DATA' = LAUREATES_DATA]_vars

\* C4: right after a create, update or delete that returned success, the file
\* holds a collection equal to the one in memory, record for record, in order
C4_WriteThrough ==
  (response.method \in Mutating /\ response.status = 200)
    => (file.valid /\ load_laureates_into_memory(file) = LAUREATES_DATA)

\* an update has succeeded on a collection that an earlier failed update had
\* left different from the file
C4_Witness ==
  /\ response.method = "PUT" /\ response.status = 200
  /\ \E i \in 1..Len(LAUREATES_DATA) : LAUREATES_DATA[i].fullName = Str("X")

\* how many timestamps of the sequence ts lie in the window [t - VENTANA, t]
CountInWindow(ts, t) ==
  Cardinality({i \in 1..Len(ts) : t - VENTANA <= ts[i] /\ ts[i] <= t})

\* the limiter's decision for each kind of mutating request of client ip now
Decisions(ip) ==
  { POST_laureates(ip, Admin, Ada(List(<<>>)), "ok").allowed,
    PUT_laureates(ip, Cred("eve", "nobel2025"), Dec(1),
                  Body(Null, Absent, Absent, Absent, Absent, NullPrizes), "ok").allowed,
    DELETE_laureates(ip, Admin, Dec(3), "ok").allowed }

\* C5: for every client and every instant t at most MAX_PETICIONES admitted
\* requests have their timestamp in [t - VENTANA, t]; and a request is admitted
\* exactly when fewer than MAX_PETICIONES of the client's stored timestamps are
\* not older than now - VENTANA
C5_AtMostNPerWindow ==
  \A ip \in Clients :
    /\ \A t \in 0..(MaxTime + VENTANA) : CountInWindow(admitted[ip], t) <= MAX_PETICIONES
    /\ Decisions(ip) = {CountInWindow(cubos_ip[ip], clock) < MAX_PETICIONES}

\* a client was denied with a full window, after an earlier window of its own
C5_Witness ==
  /\ response.status = 429
  /\ \E ip \in Clients :
       /\ Len(admitted[ip]) > MAX_PETICIONES
       /\ CountInWindow(cubos_ip[ip], clock) = MAX_PETICIONES

\* the sequence s is the end of the sequence t
IsSuffix(s, t) ==
  /\ Len(s) <= Len(t)
  /\ s = SubSeq(t, Len(t) - Len(s) + 1, Len(t))

\* C6: the limiter holds admitted timestamps only, and once the first of the
\* client's last MAX_PETICIONES admitted requests is more than VENTANA old the
\* client's next mutating request is admitted
C6_AdmittedAgainAfterWindow ==
  \A ip \in Clients :
    LET a == admitted[ip] IN
    /\ IsSuffix(cubos_ip[ip], a)
    /\ (/\ Len(a) >= MAX_PETICIONES
        /\ clock > a[Len(a) - MAX_PETICIONES + 1] + VENTANA)
       => Decisions(ip) = {TRUE}

\* a client filled its window at one instant and was admitted again later
C6_Witness ==
  /\ response.stage # "limitador"
  /\ \E ip \in Clients :
       LET a == admitted[ip] IN
       /\ Len(a) = MAX_PETICIONES + 1
       /\ a[MAX_PETICIONES] = a[1]
       /\ a[MAX_PETICIONES + 1] > a[1] + VENTANA
       /\ clock = a[MAX_PETICIONES + 1]

\* the bucket `new` is the bucket `old` without timestamps older than now - VENTANA
OnlyStaleDropped(old, new) ==
  \E k \in 0..Len(old) :
    /\ new = SubSeq(old, k + 1, Len(old))
    /\ \A i \in 1..k : clock - old[i] > VENTANA

\* C7: a mutating request the limiter denies is answered 429 by the middleware
\* itself and leaves the collection, the file and the client's timestamps
\* (but for stale ones) as they were
C7_DeniedIsNotProcessed ==
  \A ip \in Clients :
    LET NotProcessed(r) ==
          /\ ~r.allowed
          /\ r.resp.status = 429
          /\ r.resp.stage = "limitador"
          /\ ~r.recorded
          /\ r.data = LAUREATES_DATA
          /\ r.file = file
          /\ OnlyStaleDropped(cubos_ip[ip], r.cubo)
    IN (\E metodo \in Mutating : ~limitador(metodo, cubos_ip[ip], clock).allowed)
         => \A cred \in LimCreds : AllMutating(ip, cred, NotProcessed)

\* a delete was denied while the collection held records
C7_Witness ==
  /\ response.method = "DELETE" /\ response.status = 429
  /\ response.stage = "limitador"
  /\ Len(LAUREATES_DATA) > 0
  /\ Len(cubos_ip[FirstClient]) = MAX_PETICIONES

\* C8: the middleware lets a read request through whatever the client's bucket
\* holds, records nothing and leaves the bucket as it is; no read is answered
\* 429
C8_ReadsNotLimited ==
  /\ \A ip \in Clients :
       LET lim == limitador("GET", cubos_ip[ip], clock) IN
       /\ lim.allowed
       /\ ~lim.recorded
       /\ lim.cubo = cubos_ip[ip]
  /\ response.method = "GET" =>
       /\ response.status # 429
       /\ response.stage = "handler"

\* a read was answered while the window of every client was full
C8_Witness ==
  /\ response.method = "GET" /\ response.status = 200
  /\ \A ip \in Clients : CountInWindow(cubos_ip[ip], clock) = MAX_PETICIONES

\* credentials that are no user with that user's password
BadCredentials(cred) ==
  ~ \E u \in DOMAIN USUARIOS : cred = Cred(u, USUARIOS[u])

\* C9: an admitted mutating request with bad credentials is answered 401 with
\* the challenge header, whatever its id and payload, and leaves the
\* collection and the file as they were
C9_UnauthorizedChangesNothing ==
  \A cred \in Creds :
    LET Refused(r) ==
          r.allowed =>
            /\ r.resp.status = 401
            /\ r.resp.challenge
            /\ r.data = LAUREATES_DATA
            /\ r.file = file
    IN (BadCredentials(cred) /\ limitador("POST", cubos_ip[FirstClient], clock).allowed)
         => AllMutating(FirstClient, cred, Refused)

\* an update was answered 401 with the challenge
C9_Witness ==
  /\ response.method = "PUT" /\ response.status = 401
  /\ response.challenge
  /\ response.stage = "verificar_credenciales"

\* C10: an admitted, authenticated create whose payload violates validation is
\* answered 400 and leaves the collection, the file and the next id as they were
C10_InvalidCreateChangesNothing ==
  \A payload \in InvalidCreates, disk \in DiskOutcomes :
    LET r == POST_laureates(FirstClient, Admin, payload, disk) IN
    r.allowed =>
      /\ r.resp.status = 400
      /\ r.data = LAUREATES_DATA
      /\ r.file = file
      /\ _get_next_laureate_id(r.data) = _get_next_laureate_id(LAUREATES_DATA)

\* a create was answered 400 by the handler
C10_Witness ==
  /\ response.method = "POST" /\ response.status = 400
  /\ response.stage = "handler"

\* the answer r is 404 and leaves the collection and the file as they are
NotFoundOutcome(r) ==
  /\ r.resp.status = 404
  /\ r.resp.stage = "handler"
  /\ r.data = LAUREATES_DATA
  /\ r.file = file

\* C11: an admitted, authenticated delete or update whose id is the id of no
\* record (the ids compared as strings) is answered 404 and leaves the
\* collection, records and order, and the file as they were
C11_NotFoundChangesNothing ==
  \A id \in RequestIds :
    (\A i \in 1..Len(LAUREATES_DATA) : PyStr(LAUREATES_DATA[i].id) # PyStr(id))
      => /\ \A disk \in DiskOutcomes :
              LET r == DELETE_laureates(FirstClient, Admin, id, disk) IN
              r.allowed => NotFoundOutcome(r)
         /\ \A payload \in UpdatePayloads, disk \in DiskOutcomes :
              LET r == PUT_laureates(FirstClient, Admin, id, payload, disk) IN
              r.allowed => NotFoundOutcome(r)

\* a delete was answered 404 while the collection held a record whose id is
\* the same number as a requested id, written differently
C11_Witness ==
  /\ response.method = "DELETE" /\ response.status = 404
  /\ response.stage = "handler"
  /\ \E i \in 1..Len(LAUREATES_DATA) : LAUREATES_DATA[i].id = Pad(2)

\* the latest request was this read and it was answered 200
Answered(path) ==
  /\ response.method = "GET" /\ response.path = path
  /\ response.status = 200

\* the table of the year filter, for an integer award year a
YearTable(year, yearto, a) ==
  /\ (year.k # "null" /\ yearto.k # "null") => (year.n <= a /\ a <= yearto.n)
  /\ (year.k # "null" /\ yearto.k = "null") => a = year.n
  /\ (year.k = "null" /\ yearto.k # "null") => a <= yearto.n

\* the prize passes the category filter
DisciplineMatches(prize, discipline) ==
  \/ discipline.k = "null"
  \/ Truthy(prize.category) /\ Lower(prize.category.s) = Lower(discipline.s)

\* the prize has an award year, and the year is an integer / is not
IntYear(prize) == prize.awardYear.k = "int"
OtherYear(prize) == prize.awardYear.k \notin {"int", "null", "absent"}

\* C12: in an answered aggregation a prize with an integer award year a, which
\* the other filters let through, is counted exactly when the table of year
\* and yearto holds of a: for /laureates the group of its year and category is
\* in the results exactly then, for /countries total_count is the number of
\* such prizes (and of those whose year is no integer, which an answered
\* request only meets unfiltered)
C12_YearFilterTable ==
  LET flat == Flat(LAUREATES_DATA)
      q == body.echo
      Prizes(P(_)) == {i \in 1..Len(flat) : P(flat[i].prize)}
  IN
  /\ Answered("/laureates") =>
       \A i \in Prizes(LAMBDA p : IntYear(p) /\ Truthy(p.category)
                                   /\ DisciplineMatches(p, q.discipline)) :
         (\E j \in 1..Len(body.results) :
            /\ body.results[j].awardYear = flat[i].prize.awardYear
            /\ body.results[j].discipline = flat[i].prize.category.s)
         <=> YearTable(q.year, q.yearto, flat[i].prize.awardYear.n)
  /\ Answered("/countries") =>
       body.total_count =
         Cardinality(Prizes(LAMBDA p : /\ IntYear(p) /\ DisciplineMatches(p, q.discipline)
                                       /\ YearTable(q.year, q.yearto, p.awardYear.n)))
         + Cardinality(Prizes(LAMBDA p : /\ OtherYear(p) /\ DisciplineMatches(p, q.discipline)
                                         /\ q.year.k = "null" /\ q.yearto.k = "null"))

\* /laureates was asked for 1970 to 1980 of a collection with prizes of 1969,
\* 1970, 1975, 1980 and 1981, and answered with the years 1970, 1975 and 1980
C12_Witness ==
  /\ Answered("/laureates")
  /\ body.echo = Query(Null, JInt(1970), JInt(1980))
  /\ LAUREATES_DATA = <<Bohr3, RedCross4>>
  /\ {body.results[j].awardYear.n : j \in 1..Len(body.results)} = {1970, 1975, 1980}

\* valid create payloads with exactly one prize: the test's, one whose year is
\* a numeric string, one from a country the collections know, one whose birth
\* country is the empty string
OnePrizeCreates ==
  { Ada(List(<<Physics2025>>)),
    Ada(List(<<Physics2025s>>)),
    Body(Str("Aage Bohr"), Str("male"), Str("1922-06-19"), Str("Copenhagen"),
         Str("Denmark"), List(<<Prize(JInt(1975), Str("Physics"), Str("nuclei"))>>)),
    Body(Str("Anonymous"), Str("unknown"), Str(""), Str(""), Str(""),
         List(<<Peace2026>>)) }

\* GET /countries?discipline=c&year=y for the one prize of the payload
QueryOfPrize(payload) ==
  LET prize == payload.nobelPrizes.items[1] IN
  Query(prize.category, JInt(PyInt(prize.awardYear).n), NullNum)

\* the count the results give the country, 0 when they do not list it
CountFor(results, country) ==
  LET hits == {i \in 1..Len(results) : results[i].country = country} IN
  IF hits = {} THEN 0 ELSE results[CHOOSE i \in hits : TRUE].count

CountriesIn(results) == {results[i].country : i \in 1..Len(results)}

\* creating `payload` now, if it succeeds, adds exactly 1 to the count of
\* `country` under the prize's own filter and nothing to any other count, and
\* deleting the created record then gives back the counts of before
CreateThenDeleteCounts(payload, country) ==
  LET q == QueryOfPrize(payload)
      before == GetCountriesResult(LAUREATES_DATA, q)
      created == CreateResult(LAUREATES_DATA, file, payload, "ok")
      after == GetCountriesResult(created.data, q)
      deleted == DeleteResult(created.data, created.file, created.id, "ok")
      restored == GetCountriesResult(deleted.data, q)
  IN
  created.status = 200 =>
    /\ before.status = 200 /\ after.status = 200
    /\ CountFor(after.results, country) = CountFor(before.results, country) + 1
    /\ \A other \in (CountriesIn(before.results) \cup CountriesIn(after.results)) \ {country} :
         CountFor(after.results, other) = CountFor(before.results, other)
    /\ deleted.status = 200
    /\ restored = before

\* C13 as stated: the count that grows is the count of the payload's birth
\* country, whatever that string is
C13_CountOfBirthCountry ==
  \A payload \in OnePrizeCreates :
    CreateThenDeleteCounts(payload, payload.birthCountry.s)

\* C13 amended: the count that grows is the count of the payload's birth
\* country when that is not empty, and the count of "Unknown" when it is
C13_CountOfAttributedCountry ==
  \A payload \in OnePrizeCreates :
    CreateThenDeleteCounts(payload,
                           IF Truthy(payload.birthCountry)
                           THEN payload.birthCountry.s ELSE "Unknown")

\* a laureate of a country that already had a count under the prize's filter
\* was created and then deleted
C13_Witness ==
  /\ response.method = "DELETE" /\ response.status = 200
  /\ response.id = Dec(8)
  /\ LAUREATES_DATA = <<Turing>>
  /\ GetCountriesResult(LAUREATES_DATA, QueryOfPrize(Ada(List(<<Physics2025>>)))).results
       = <<[country |-> "United Kingdom", count |-> 1]>>

\* the prize is one /laureates counts under the filter q: it has a category,
\* the category filter lets it through, and its year passes the table (a year
\* that is no integer passes only unfiltered)
Qualifies(prize, q) ==
  /\ Truthy(prize.category)
  /\ DisciplineMatches(prize, q.discipline)
  /\ \/ IntYear(prize) /\ YearTable(q.year, q.yearto, prize.awardYear.n)
     \/ OtherYear(prize) /\ q.year.k = "null" /\ q.yearto.k = "null"

\* the display names of the entries, in their order
RECURSIVE NamesOf(_)
NamesOf(entries) ==
  IF entries = <<>> THEN <<>>
  ELSE <<IF Truthy(Head(entries).laureate.fullName)
         THEN Head(entries).laureate.fullName.s
         ELSE "Nombre desconocido">> \o NamesOf(Tail(entries))

\* C14: an answered /laureates lists its groups by ascending year and, within
\* a year, by ascending category name; the names of a group are those of the
\* qualifying prizes of that year and category, one per prize, in collection
\* order; every qualifying prize has its group; count is the number of names
\* and total_count the sum of the counts
C14_GroupsOrderedAndCounted ==
  LET flat == Flat(LAUREATES_DATA)
      q == body.echo
      results == body.results
      InGroup(e, g) ==
        /\ Qualifies(e.prize, q)
        /\ e.prize.awardYear = g.awardYear
        /\ e.prize.category.s = g.discipline
  IN
  Answered("/laureates") =>
    /\ \A i, j \in 1..Len(results) :
         i < j =>
           \/ results[i].awardYear.n < results[j].awardYear.n
           \/ /\ results[i].awardYear.n = results[j].awardYear.n
              /\ StrRank(results[i].discipline) < StrRank(results[j].discipline)
    /\ \A j \in 1..Len(results) :
         /\ results[j].laureates = NamesOf(SelectSeq(flat, LAMBDA e : InGroup(e, results[j])))
         /\ results[j].count = Len(results[j].laureates)
    /\ \A i \in 1..Len(flat) :
         Qualifies(flat[i].prize, q) => \E j \in 1..Len(results) : InGroup(flat[i], results[j])
    /\ body.total_count = SumCounts(results)

\* /laureates was answered, unfiltered, with the years in another order than
\* the collection holds them and with a laureate named twice in one group
C14_Witness ==
  /\ Answered("/laureates")
  /\ body.echo = NoFilter
  /\ LAUREATES_DATA = <<Bohr3, RedCross4>>
  /\ \E j \in 1..Len(body.results) :
       /\ body.results[j].laureates = <<"Red Cross", "Red Cross">>
       /\ body.results[j].count = 2
  /\ body.total_count = 7

\* the prize is one /countries counts under the filter q
QualifiesForCountry(prize, q) ==
  /\ DisciplineMatches(prize, q.discipline)
  /\ \/ IntYear(prize) /\ YearTable(q.year, q.yearto, prize.awardYear.n)
     \/ OtherYear(prize) /\ q.year.k = "null" /\ q.yearto.k = "null"

\* the stored birthCountry, "Unknown" when it is missing, null or empty
Attributed(laureate) ==
  IF laureate.birthCountry.k = "str" /\ laureate.birthCountry.s # ""
  THEN laureate.birthCountry.s
  ELSE "Unknown"

\* C15: an answered /countries lists each country that has a qualifying prize
\* once, with the number of qualifying prizes of laureates whose stored
\* birthCountry it is ("Unknown" for a missing or empty one); the counts never
\* increase along the list, countries of equal count stand in the order in
\* which the collection first meets them, and total_count is the number of
\* qualifying prizes
C15_CountriesCountedAndOrdered ==
  LET flat == Flat(LAUREATES_DATA)
      q == body.echo
      results == body.results
      Of(country) == {i \in 1..Len(flat) : /\ QualifiesForCountry(flat[i].prize, q)
                                           /\ Attributed(flat[i].laureate) = country}
      First(country) == CHOOSE i \in Of(country) : \A j \in Of(country) : i <= j
  IN
  Answered("/countries") =>
    /\ \A i \in 1..Len(flat) :
         QualifiesForCountry(flat[i].prize, q)
           => \E j \in 1..Len(results) : results[j].country = Attributed(flat[i].laureate)
    /\ \A j \in 1..Len(results) :
         /\ results[j].count = Cardinality(Of(results[j].country))
         /\ results[j].count >= 1
    /\ \A i, j \in 1..Len(results) :
         i < j =>
           /\ results[i].country # results[j].country
           /\ results[i].count >= results[j].count
           /\ results[i].count = results[j].count
                => First(results[i].country) < First(results[j].country)
    /\ body.total_count
         = Cardinality({i \in 1..Len(flat) : QualifiesForCountry(flat[i].prize, q)})

\* /countries was answered with two countries of equal count, one of them
\* "Unknown" for a laureate without birthCountry
C15_Witness ==
  /\ Answered("/countries")
  /\ body.echo = Query(Null, NullNum, JInt(1980))
  /\ LAUREATES_DATA = <<Bohr3, RedCross4>>
  /\ body.results = <<[country |-> "Denmark", count |-> 3],
                      [country |-> "Unknown", count |-> 3]>>
  /\ body.total_count = 6

\* C16: a read request, answered or not, leaves the collection and the file as
\* they were; and when it follows an answered read of the same path with the
\* same parameters, it is answered with the same count and results
C16_ReadsChangeNothing ==
  [][response'.method = "GET"
       => /\ LAUREATES_DATA' = LAUREATES_DATA
          /\ file' = file
          /\ (/\ response.method = "GET"
              /\ response.path = response'.path
              /\ response.status = 200 /\ response'.status = 200
              /\ body'.echo = body.echo)
             => body' = body]_vars

\* a search was answered with one of the two records of the collection
C16_Witness ==
  /\ Answered("/laureates/search")
  /\ body.echo = [query |-> "ie"]
  /\ body.total_count = 1
  /\ Len(LAUREATES_DATA) = 2
  /\ body.results = <<LAUREATES_DATA[1]>>

\* the stored prize has an integer awardYear and a category and a motivation
\* that are non-empty strings
WellFormedPrize(prize) ==
  /\ prize.awardYear.k = "int"
  /\ prize.category.k = "str" /\ prize.category.s # ""
  /\ prize.motivation.k = "str" /\ prize.motivation.s # ""

\* C17: starting from collections whose laureates each have at least one
\* prize, after any creates, updates and deletes, failed ones included, every
\* laureate has at least one prize and every prize is well formed (the prizes
\* the collections start with are, so one that is not would have been stored by
\* a create or an update)
C17_PrizesNonEmptyAndWellFormed ==
  \A i \in 1..Len(LAUREATES_DATA) :
    LET prizes == LAUREATES_DATA[i].nobelPrizes IN
    /\ Len(prizes) >= 1
    /\ \A j \in 1..Len(prizes) : WellFormedPrize(prizes[j])

\* an update has replaced the prizes of one record while another record, whose
\* year was sent as a numeric string, had been created
C17_Witness ==
  /\ response.method = "PUT" /\ response.status = 200
  /\ \E i, j \in 1..Len(LAUREATES_DATA) :
       /\ LAUREATES_DATA[i].nobelPrizes = <<StoredPrize(2026, Str("Peace"), Str("For homework"))>>
       /\ LAUREATES_DATA[i].birthCountry = Str("Argentina")
       /\ LAUREATES_DATA[j].fullName = Str("Ada Lovelace")
       /\ LAUREATES_DATA[j].nobelPrizes = <<StoredPrize(2025, Str("Physics"), Str("For demo purposes"))>>

\* both threads have answered a create with success
BothCreated ==
  \A t \in Threads :
    /\ threads[t].pc = "done" /\ threads[t].method = "POST"
    /\ threads[t].status = 200

\* C18: when two creates served at the same time have both succeeded, their
\* ids differ and both records are in the collection, each once
C18_ConcurrentCreatesDistinctIds ==
  BothCreated =>
    /\ \A t, u \in Threads : t # u => PyStr(threads[t].id) # PyStr(threads[u].id)
    /\ \A t \in Threads :
         Cardinality({i \in 1..Len(LAUREATES_DATA) :
                        PyStr(LAUREATES_DATA[i].id) = PyStr(threads[t].id)}) = 1

\* the middleware has run for the request of thread t
PastMiddleware(t) == threads[t].pc \notin {"idle", "arrived"}

\* C19: at every instant at most MAX_PETICIONES admitted requests of a client
\* lie in the window, however the requests overlap; and of two requests of one
\* client that both arrived while the client had MAX_PETICIONES - 1 timestamps
\* in its window, the middleware admits one and denies the other
C19_LimiterIsAtomic ==
  /\ \A ip \in Clients : CountInWindow(admitted[ip], clock) <= MAX_PETICIONES
  /\ \A t, u \in Threads :
       (/\ t # u
        /\ PastMiddleware(t) /\ PastMiddleware(u)
        /\ threads[t].ip = threads[u].ip
        /\ CountInWindow(threads[t].snapshot, clock) = MAX_PETICIONES - 1
        /\ CountInWindow(threads[u].snapshot, clock) = MAX_PETICIONES - 1)
       => threads[t].allowed # threads[u].allowed

\* two requests arrived while the client had MAX_PETICIONES - 1 timestamps; the
\* first was admitted and is still being served, the second has been denied
C19_Witness ==
  \E t, u \in Threads :
    /\ t # u
    /\ Len(threads[t].snapshot) = MAX_PETICIONES - 1
    /\ Len(threads[u].snapshot) = MAX_PETICIONES - 1
    /\ threads[t].pc = "append" /\ threads[t].allowed
    /\ threads[t].seen = MAX_PETICIONES - 1
    /\ threads[u].pc = "done" /\ threads[u].status = 429
    /\ threads[u].seen = MAX_PETICIONES

\* the request `failed`, whose save fails, against the same request `saved`
\* whose save succeeds: when the latter is answered 200, the former is answered
\* 500, leaves in memory the collection the latter leaves, and leaves a file
\* that was not rewritten (the old one, or one cut short) and so, where the
\* mutation changed a collection the file agreed with, is not the document of
\* the collection in memory
FailsWithoutSaving(failed, saved) ==
  (failed.allowed /\ saved.resp.status = 200) =>
    /\ failed.resp.status = 500
    /\ failed.data = saved.data
    /\ failed.file = file \/ ~failed.file.valid
    /\ (file = Dump(LAUREATES_DATA) /\ failed.data # LAUREATES_DATA)
         => failed.file # Dump(failed.data)

\* C20: an admitted create, update or delete whose save raises is answered
\* with a failure, never 200; the collection in memory holds the mutation, the
\* file does not
C20_FailedSaveIsAFailure ==
  limitador("POST", cubos_ip[FirstClient], clock).allowed =>
  \A disk \in DiskOutcomes \ {"ok"} :
    /\ \A payload \in CreatePayloads :
         FailsWithoutSaving(POST_laureates(FirstClient, Admin, payload, disk),
                            POST_laureates(FirstClient, Admin, payload, "ok"))
    /\ \A id \in RequestIds, payload \in UpdatePayloads :
         FailsWithoutSaving(PUT_laureates(FirstClient, Admin, id, payload, disk),
                            PUT_laureates(FirstClient, Admin, id, payload, "ok"))
    /\ \A id \in RequestIds :
         FailsWithoutSaving(DELETE_laureates(FirstClient, Admin, id, disk),
                            DELETE_laureates(FirstClient, Admin, id, "ok"))

\* a delete was answered 500: the record is gone from memory and still in the
\* file, which could not be opened
C20_Witness ==
  /\ response.method = "DELETE" /\ response.status = 500
  /\ LAUREATES_DATA = <<>>
  /\ file = Dump(<<Bohr>>)

\* the record the last answer reports, when that answer is a 200 to `method`
Reported(method) ==
  IF response.method = method /\ response.status = 200
  THEN LET idx == _find_laureate_index_by_id(LAUREATES_DATA, response.id) IN
       IF idx = 0 THEN {} ELSE {LAUREATES_DATA[idx]}
  ELSE {}

\* C21: the record a successful create has just added, and the record a
\* successful update has just written, has a fullName that is not the empty
\* string
C21_FullNameNeverEmpty ==
  \A l \in Reported("POST") \cup Reported("PUT") : l.fullName # Str("")

\* the sequence `after` is the sequence `before` without its idx-th record
WithoutIndex(before, idx, after) ==
  /\ Len(after) = Len(before) - 1
  /\ \A i \in 1..(idx - 1) : after[i] = before[i]
  /\ \A i \in idx..Len(after) : after[i] = before[i + 1]

\* C22: a delete answered 200 takes out the one record whose id, as a string,
\* is the id asked for and leaves every other record as it was and in the same
\* order; the answer carries the fullName of that record; looked up or
\* searched for in the collection the delete leaves, the record is not found
C22_DeleteRemovesOnlyThatRecord ==
  \A id \in EditIds :
    LET r == DELETE_laureates(FirstClient, Admin, id, "ok")
        out == DeleteResult(LAUREATES_DATA, file, id, "ok")
        same == {i \in 1..Len(LAUREATES_DATA) : PyStr(LAUREATES_DATA[i].id) = PyStr(id)}
    IN r.resp.status = 200 =>
         \E idx \in 1..Len(LAUREATES_DATA) :
           /\ same = {idx}
           /\ WithoutIndex(LAUREATES_DATA, idx, r.data)
           /\ out.fullName = LAUREATES_DATA[idx].fullName
           /\ _find_laureate_index_by_id(r.data, id) = 0
           /\ \A name \in Names :
                LET found == SearchResult(r.data, name) IN
                /\ found.status = 200
                /\ \A i \in 1..Len(found.results) :
                     PyStr(found.results[i].id) # PyStr(id)

\* the record in the middle was deleted: the first and the last are what is
\* left, in that order
C22_Witness ==
  /\ response.method = "DELETE" /\ response.status = 200
  /\ response.id = Pad(2)
  /\ LAUREATES_DATA = <<Bohr, Curie>>
  /\ file = Dump(LAUREATES_DATA)

\* the prizes of a body as they are stored: the year as an integer
AsStored(items) ==
  [i \in 1..Len(items) |->
     [awardYear |-> JInt(PyInt(items[i].awardYear).n),
      category |-> items[i].category,
      motivation |-> items[i].motivation]]

\* the record `after` is the record `before` with the members the body gives
\* a value other than null, and no other, replaced; the id is the old one
UpdatedBy(before, payload, after) ==
  /\ after.id = before.id
  /\ \A field \in {"fullName", "gender", "birthDate", "birthCity", "birthCountry"} :
       after[field] = IF payload[field].k = "str" THEN payload[field] ELSE before[field]
  /\ after.nobelPrizes = IF payload.nobelPrizes.k = "list"
                         THEN AsStored(payload.nobelPrizes.items)
                         ELSE before.nobelPrizes

\* C23: an update answered 200 leaves the collection as long as it was, every
\* record but the one whose id is the id asked for as it was, and that record
\* at its place, with its id, with each of the five simple fields and the
\* prizes replaced exactly when the body gives them a value other than null
C23_UpdateChangesOnlyThatRecord ==
  \A id \in EditIds, payload \in EditUpdates \cup UpdatePayloads :
    LET r == PUT_laureates(FirstClient, Admin, id, payload, "ok") IN
    r.resp.status = 200 =>
      /\ Len(r.data) = Len(LAUREATES_DATA)
      /\ \E idx \in 1..Len(LAUREATES_DATA) :
           /\ PyStr(LAUREATES_DATA[idx].id) = PyStr(id)
           /\ UpdatedBy(LAUREATES_DATA[idx], payload, r.data[idx])
           /\ \A j \in 1..Len(LAUREATES_DATA) : j # idx => r.data[j] = LAUREATES_DATA[j]

\* the first record was updated by a body that carries an id, a name, a null
\* gender and a city: name and city are new, id and gender are the old ones
C23_Witness ==
  /\ response.method = "PUT" /\ response.status = 200
  /\ response.id = Dec(1)
  /\ LAUREATES_DATA =
       <<[Bohr EXCEPT !.fullName = Str("X"), !.birthCity = Str("Paris")], RedCross, Curie>>

\* thread u is serving, or has just answered, a `method` request for the id
\* thread t was asked for
SameTarget(t, u, method) ==
  /\ u # t
  /\ threads[u].method = method
  /\ threads[u].pc \notin {"idle", "arrived"}
  /\ PyStr(threads[u].target) = PyStr(threads[t].target)

\* C24: while two deletes of the same id are served at once, the record a
\* delete takes out of the collection is a record whose id is the id asked for
C24_ConcurrentDeletesRemoveThatId ==
  [][\A t \in Threads :
       (/\ threads[t].pc = "pop" /\ threads'[t].pc = "dump"
        /\ \E u \in Threads : SameTarget(t, u, "DELETE"))
       => PyStr(threads'[t].laureate.id) = PyStr(threads[t].target)]_vars

\* thread u is serving, or has just answered, a delete
Deleting(u) ==
  /\ threads[u].method = "DELETE"
  /\ threads[u].pc \notin {"idle", "arrived"}

\* C25: while an update is served at once with a delete, the record the
\* update assigns over is the record whose id is the id asked for, which is
\* then still in the collection: the update overwrites no other record and
\* puts no deleted record back
C25_UpdateRacingDeleteWritesThatId ==
  [][\A t \in Threads :
       (/\ threads[t].pc = "assign" /\ threads'[t].pc = "dump"
        /\ \E u \in Threads \ {t} : Deleting(u))
       => PyStr(LAUREATES_DATA[threads[t].idx].id) = PyStr(threads[t].target)]_vars

\* no request is being served
Quiet == \A t \in Threads : threads[t].pc = "idle"

\* C26: once the updates and deletes served at once have all completed, the
\* file holds the document of the collection in memory
C26_FileFollowsMemoryAfterRaces ==
  Quiet => file = Dump(LAUREATES_DATA)

\* C27: under every filter for which both are answered, /laureates and
\* /countries let the same prizes of the collection through, and their
\* total_count is the same number
C27_SameFilterInBothAggregations ==
  LET flat == Flat(LAUREATES_DATA) IN
  \A q \in Queries :
    LET groups == GetLaureatesResult(LAUREATES_DATA, q)
        countries == GetCountriesResult(LAUREATES_DATA, q)
    IN (groups.status = 200 /\ countries.status = 200) =>
         /\ \A i \in 1..Len(flat) :
              LaureateVerdict(flat[i].prize, q) = "in"
                <=> CountryVerdict(flat[i].prize, q) = "in"
         /\ groups.total_count = countries.total_count

\* C28: under every filter both aggregations are answered, and neither lets
\* through a prize whose award year is absent, null or no integer
C28_NonIntegerYearIsSkipped ==
  LET flat == Flat(LAUREATES_DATA) IN
  \A q \in Queries :
    /\ GetLaureatesResult(LAUREATES_DATA, q).status = 200
    /\ GetCountriesResult(LAUREATES_DATA, q).status = 200
    /\ \A i \in 1..Len(flat) :
         ~IntYear(flat[i].prize) =>
           /\ LaureateVerdict(flat[i].prize, q) # "in"
           /\ CountryVerdict(flat[i].prize, q) # "in"

\* C29: with every request served alone and to its end and no write to the
\* disk failing, the file holds the document of the collection in memory after
\* every request, whatever its answer
C29_FileEqualsMemoryWhenIdle ==
  file = Dump(LAUREATES_DATA)

\* the requests of client ip that fail: a create without prizes (400), a
\* create with the credentials of no user (401), a delete of no record (404)
FailingRequests(ip) ==
  { POST_laureates(ip, Admin, Ada(List(<<>>)), "ok"),
    POST_laureates(ip, Cred("eve", "nobel2025"), Ada(List(<<>>)), "ok"),
    DELETE_laureates(ip, Admin, Dec(3), "ok") }

\* the last MAX_PETICIONES admitted requests of the client are in the window
WindowFull(ip) ==
  LET a == admitted[ip] IN
  /\ Len(a) >= MAX_PETICIONES
  /\ clock - a[Len(a) - MAX_PETICIONES + 1] <= VENTANA

\* C30: a mutating request that is admitted and then fails with 400, 401 or
\* 404 has added its timestamp to the client's bucket; and once the client's
\* last MAX_PETICIONES admitted requests, failed or not, are in the window,
\* its next mutating request is answered 429
C30_FailedRequestsTakeSlots ==
  \A ip \in Clients :
    \A r \in FailingRequests(ip) :
      /\ r.allowed =>
           /\ r.resp.status \in {400, 401, 404}
           /\ r.recorded
           /\ r.cubo = Append(Evict(cubos_ip[ip], clock), clock)
      /\ WindowFull(ip) => (~r.allowed /\ r.resp.status = 429)

\* the second client, whose requests all fail, has had MAX_PETICIONES admitted
\* in one window and its next request was denied; the first client has sent
\* nothing
C30_Witness ==
  /\ response.status = 429 /\ response.stage = "limitador"
  /\ admitted[FirstClient] = <<>>
  /\ Len(admitted[SecondClient]) = MAX_PETICIONES
  /\ WindowFull(SecondClient)

====
